---------------------------- MODULE Spec2Model ----------------------------
(***************************************************************************)
(* The lighting preview thread of hammer/lpreview_thread.cpp: the Run      *)
(* loop of CLightingPreviewThread, its message handlers, the incremental   *)
(* per-light bookkeeping (CIncrementalLightInfo), the line schedule built  *)
(* by InitIncrementalInformation and the priority order used by DoWork.    *)
(*                                                                         *)
(* Abstractions.  World coordinates are one-dimensional (Coords).  A bit   *)
(* mask is the set of its set bit positions.  A CSIMDVectorMatrix is its   *)
(* height and the set of rows that were written since it was allocated     *)
(* (rows outside that set hold whatever the allocation left there).  The   *)
(* light evaluation and the ray tracer are external: what a kernel task    *)
(* returns for the rows it computed is drawn from 0..MaxLight.  Time is    *)
(* kept as Plat_FloatTime() - m_fLastSendTime, in seconds, saturated       *)
(* just above the ten-second send period.                                  *)
(***************************************************************************)
EXTENDS Integers, Sequences, FiniteSets, TLC

\* ------------------------------------------------------------------ bounds
\* messages the host sends in one run
MaxMessages == 3
\* messages the host sends to a scene that is already loaded
MaxFollowUps == 1
\* the light a kernel task reports is in 0 .. MaxLight
MaxLight == 1
\* refinement levels explored at either end of the schedule
MaxLevels == 3

\* the inputs the host draws from
ObjectIDs == {1, 2}
Coords == {0, 1}
\* a null RayTracingEnvironment pointer; a null pointer into the light list or
\* into the list of records is the index 0
NullPtr == "nullptr"

\* ------------------------------------------------------- program constants
INCR_STATE_NO_RESULTS == 0
INCR_STATE_PARTIAL_RESULTS == 1
INCR_STATE_NEW == 2
INCR_STATE_HAVE_FULL_RESULTS == 3
N_INCREMENTAL_STEPS == 32
UnsetLine == 1000000
InitialContributionCounter == 1000000
SendPeriod == 10
ForceSendBackdate == 9

MATERIAL_LIGHT_DIRECTIONAL == "directional"
MATERIAL_LIGHT_POINT == "point"
LightTypes == {MATERIAL_LIGHT_DIRECTIONAL, MATERIAL_LIGHT_POINT}

Steps == 0 .. (N_INCREMENTAL_STEPS - 1)

Abs(x) == IF x < 0 THEN -x ELSE x

\* ------------------------------------------------------- the line schedule
\* "bit reverse i": the while loop over msk_test = N/2, N/4, ..., 1
RECURSIVE BitReverseLoop(_, _, _, _)
BitReverseLoop(i, msk, msk_or, msk_test) ==
    IF msk_test = 0 THEN msk
    ELSE BitReverseLoop(i,
                        IF (i \div msk_test) % 2 = 1 THEN msk + msk_or ELSE msk,
                        msk_or * 2,
                        msk_test \div 2)

BitReverse(i) == BitReverseLoop(i, 0, 1, N_INCREMENTAL_STEPS \div 2)

\* m_LineMask[i] with "1 << i" in place of "1 << msk": no bit reversal
m_LineMaskInOrder == [i \in Steps |-> 0 .. i]

\* m_LineMask[i], as the set of the bits set in it
m_LineMask == [i \in Steps |-> {b \in Steps : \E j \in 0 .. i : BitReverse(j) = b}]

\* the outcomes of the test m_LineMask[lvl] & (1 << chk).  A shift by the
\* width of int is undefined: the build either wraps the count (bit 0 is
\* then tested) or yields 0.
LineBitTest(lvl, chk) ==
    IF chk < N_INCREMENTAL_STEPS THEN {chk \in m_LineMask[lvl]}
    ELSE {(chk % N_INCREMENTAL_STEPS) \in m_LineMask[lvl], FALSE}

\* the loop "for chk = 0; chk <= linemod" that leaves closest_line; shiftHit
\* is the outcome of the one undefined bit test, if the loop reaches it.
\* Pass[from, to, closest] is closest_line after the iterations chk = from
\* .. to, run in order: the first half, then the second half on its result.
ClosestLineLoop(lvl, linemod, chk, closest_line, shiftHit) ==
    LET hit(c) == IF c < N_INCREMENTAL_STEPS THEN c \in m_LineMask[lvl]
                  ELSE shiftHit
        Pass[from \in Nat, to \in Nat, closest \in Nat] ==
            IF from > to THEN closest
            ELSE IF from = to
                 THEN IF hit(from) /\ Abs(from - linemod) < Abs(closest - linemod)
                      THEN from ELSE closest
                 ELSE Pass[(from + to) \div 2 + 1, to,
                           Pass[from, (from + to) \div 2, closest]]
    IN  Pass[chk, linemod, closest_line]

ClosestLine(lvl, linemod) == ClosestLineLoop(lvl, linemod, 0, UnsetLine, FALSE)

\* m_ClosestLineOffset[lvl][linemod] for the columns inside the table
m_ClosestLineOffset ==
    [lvl \in Steps |-> [linemod \in Steps |-> ClosestLine(lvl, linemod)]]

\* The column linemod = N of row lvl aliases column 0 of row lvl + 1, which
\* the next iteration rewrites; the last such write, for lvl = N - 1, lands
\* on the member declared after the table, m_nBitmapGenerationCounter.
OverflowWrites ==
    {ClosestLineLoop(N_INCREMENTAL_STEPS - 1, N_INCREMENTAL_STEPS, 0, UnsetLine, h) :
        h \in LineBitTest(N_INCREMENTAL_STEPS - 1, N_INCREMENTAL_STEPS)}

\* ------------------------------------------------------------------- state
VARIABLES
    LPreviewObject,             \* the CLightingPreviewThread object
    pc,                         \* where Run() stands
    should_quit,                \* the local of Run()
    g_HammerToLPreviewMsgQueue, \* inbound messages, oldest first
    g_LPreviewToHammerMsgQueue, \* generation of the DisplayResult queued last
    host,                       \* the host: messages left to send, last generation
    tasks,                      \* the CalculateForLightTask calls in flight
    history                     \* observations the properties refer to: whether a
                                \* discard awaits its DisplayResult, the generation
                                \* handled last, the seconds since the last
                                \* DisplayResult (and, right after SendResult,
                                \* the seconds it came after the one before),
                                \* the kernel runs on each record since the
                                \* last discard (counted up to N + 1)

\* no ExecuteParallel call is in flight
NoTasks == <<>>

vars == <<LPreviewObject, pc, should_quit, g_HammerToLPreviewMsgQueue,
          g_LPreviewToHammerMsgQueue, host, tasks, history>>

\* ------------------------------------------------- CSIMDVectorMatrix
\* an empty matrix: no data
EmptyMatrix == [m_nHeight |-> 0, rows |-> {}]

\* SetSize keeps the data when the size is unchanged and otherwise frees it
\* and allocates a fresh, unwritten array
SetSize(matrix, height) ==
    IF matrix.m_nHeight = height THEN matrix
    ELSE [m_nHeight |-> height, rows |-> {}]

\* ------------------------------------------------- CIncrementalLightInfo
\* the constructor
NewIncrementalLightInfo ==
    [m_pLight |-> 0,
     m_nObjectID |-> -1,
     m_PartialResultsStage |-> 0,
     m_eIncrState |-> INCR_STATE_NEW,
     m_CalculatedContribution |-> EmptyMatrix,
     m_fTotalContribution |-> 0,
     m_fDistanceToEye |-> 0,
     m_nMostRecentNonZeroContributionTimeStamp |-> 0]

\* DiscardResults with the test on INCR_STATE_NEW left out
InfoDiscardResultsFlipped(info) ==
    [info EXCEPT !.m_CalculatedContribution = EmptyMatrix,
                 !.m_eIncrState = INCR_STATE_NO_RESULTS]

\* DiscardResults as ClearIncremental calls it: the record is set back to
\* INCR_STATE_NEW
InfoClearIncremental(info) ==
    [info EXCEPT !.m_CalculatedContribution = SetSize(@, 0),
                 !.m_eIncrState = INCR_STATE_NEW]

\* DiscardResults that also clears the total contribution
InfoDiscardResultsZeroed(info) ==
    [info EXCEPT !.m_CalculatedContribution = SetSize(@, 0),
                 !.m_fTotalContribution = 0,
                 !.m_eIncrState = IF @ # INCR_STATE_NEW
                                  THEN INCR_STATE_NO_RESULTS ELSE @]

\* CIncrementalLightInfo::DiscardResults
InfoDiscardResults(info) ==
    [info EXCEPT !.m_CalculatedContribution = SetSize(@, 0),
                 !.m_eIncrState = IF @ # INCR_STATE_NEW
                                  THEN INCR_STATE_NO_RESULTS ELSE @]

HasWorkToDo(info) == info.m_eIncrState # INCR_STATE_HAVE_FULL_RESULTS

\* Vector::WithinAABox, in one dimension
WithinAABox(p, lo, hi) == lo <= p /\ p <= hi

\* IsHighPriority without its first return: no light is priority-boosted
IsHighPriorityOff(info, pLPV) == FALSE

\* CIncrementalLightInfo::IsHighPriority; m_pLight is an index of the
\* current light list
IsHighPriority(info, pLPV) ==
    /\ info.m_eIncrState = INCR_STATE_NEW
    /\ WithinAABox(pLPV.m_pLightList.lights[info.m_pLight].m_Position,
                   pLPV.m_MinViewCoords, pLPV.m_MaxViewCoords)

\* the switch on state_combo of IsLowerPriorityThan
StateCombo(this, other, combo) ==
    LET myTotal == this.m_fTotalContribution
        otherTotal == other.m_fTotalContribution
        myStamp == this.m_nMostRecentNonZeroContributionTimeStamp
        otherStamp == other.m_nMostRecentNonZeroContributionTimeStamp
        byBrightness ==
            IF myTotal = 0 /\ otherTotal = 0
            THEN otherStamp > myStamp
            ELSE myTotal < otherTotal
    IN
    CASE combo = INCR_STATE_NEW + 16 * INCR_STATE_NEW ->
            this.m_fDistanceToEye > other.m_fDistanceToEye
      [] combo = INCR_STATE_NEW + 16 * INCR_STATE_NO_RESULTS ->
            otherTotal > 0
      [] combo = INCR_STATE_NEW + 16 * INCR_STATE_PARTIAL_RESULTS ->
            FALSE
      [] combo = INCR_STATE_PARTIAL_RESULTS + 16 * INCR_STATE_NEW ->
            TRUE
      [] combo = INCR_STATE_NO_RESULTS + 16 * INCR_STATE_NEW ->
            myTotal = 0
      [] combo = INCR_STATE_PARTIAL_RESULTS + 16 * INCR_STATE_PARTIAL_RESULTS ->
            IF myTotal = 0 /\ otherTotal = 0 /\ otherStamp > myStamp THEN TRUE
            ELSE IF otherTotal = 0 /\ myTotal > 0 THEN FALSE
            ELSE IF myTotal = 0 /\ otherTotal > 0 THEN TRUE
            ELSE IF Abs(this.m_PartialResultsStage - other.m_PartialResultsStage) <= 1
                 THEN myTotal < otherTotal
            ELSE this.m_PartialResultsStage > other.m_PartialResultsStage
      [] combo = INCR_STATE_PARTIAL_RESULTS + 16 * INCR_STATE_NO_RESULTS ->
            IF otherTotal # 0 THEN TRUE ELSE byBrightness
      [] combo = INCR_STATE_NO_RESULTS + 16 * INCR_STATE_PARTIAL_RESULTS ->
            IF myTotal # 0 THEN FALSE ELSE byBrightness
      [] combo = INCR_STATE_NO_RESULTS * 16 + INCR_STATE_NO_RESULTS ->
            byBrightness
      [] OTHER -> FALSE

\* CIncrementalLightInfo::IsLowerPriorityThan
IsLowerPriorityThan(this, pLPV, other) ==
    LET highpriority == IsHighPriority(this, pLPV)
        other_highpriority == IsHighPriority(other, pLPV)
    IN  IF highpriority /\ ~other_highpriority THEN FALSE
        ELSE IF other_highpriority /\ ~highpriority THEN TRUE
        ELSE StateCombo(this, other, this.m_eIncrState + 16 * other.m_eIncrState)

\* ------------------------------------------------- CLightingPreviewThread
\* heights of the G-buffers the host renders
Heights == {0, N_INCREMENTAL_STEPS + 1}
\* the heights of the three images of a G-buffers message (albedo, normal,
\* position): equal, or with an empty image of positions
GBufferHeights ==
    {<<h, h, h>> : h \in Heights}
        \cup {<<N_INCREMENTAL_STEPS + 1, N_INCREMENTAL_STEPS + 1, 0>>}
\* the G-buffers whose three images agree in size
SameHeights(height) == <<height, height, height>>
\* numbers of vertices in a shadow triangle list
TriangleCounts == {0, 3, 4}

LightDescriptions ==
    [m_nObjectID : ObjectIDs, m_Type : LightTypes, m_Position : Coords,
     m_pIncrementalInfo : {0}]

\* the light lists the host sends in a message
LightLists == {<<>>} \cup {<<a>> : a \in LightDescriptions}

\* the lists of two point lights: object ids are unique within a list, and
\* which of the two ids comes first makes no difference to the thread
LightPairs ==
    {p \in {<<a, b>> : a \in LightDescriptions, b \in LightDescriptions} :
        /\ p[1].m_nObjectID < p[2].m_nObjectID
        /\ p[1].m_Type = MATERIAL_LIGHT_POINT
        /\ p[2].m_Type = MATERIAL_LIGHT_POINT}

\* m_pLightList: a null pointer, or a pointer to the list of a message
NoLightList == [null |-> TRUE, lights |-> <<>>]
LightListAt(lights) == [null |-> FALSE, lights |-> lights]

\* the constructor; the Vector members are not initialised by it
\* (m_LastEyePosition is set by a message before anything reads it), and
\* InitIncrementalInformation writes one element past m_ClosestLineOffset
Constructed ==
    {[m_pLightList |-> NoLightList,
      m_Albedos |-> [m_nHeight |-> 0],
      m_Normals |-> [m_nHeight |-> 0],
      m_Positions |-> [m_nHeight |-> 0],
      m_pRtEnv |-> NullPtr,
      m_pIncrementalLightInfoList |-> <<>>,
      m_bAccStructureBuilt |-> FALSE,
      m_LastEyePosition |-> 0,
      m_bResultChangedSinceLastSend |-> FALSE,
      sinceLastSend |-> SendPeriod + 1,
      m_nBitmapGenerationCounter |-> gen,
      m_nContributionCounter |-> InitialContributionCounter,
      m_MinViewCoords |-> lo,
      m_MaxViewCoords |-> hi] :
        lo \in Coords, hi \in Coords,
        gen \in {-1} \cup OverflowWrites}

\* the search of UpdateIncrementalForNewLightList finding nothing
FindInfoNone(infos, id) == 0

\* the first record of the list that carries the object id, or 0
FindInfo(infos, id) ==
    LET hits == {k \in 1 .. Len(infos) : infos[k].m_nObjectID = id}
    IN  IF hits = {} THEN 0
        ELSE CHOOSE k \in hits : \A j \in hits : j <= k

\* CLightingPreviewThread::UpdateIncrementalForNewLightList, from light i on
RECURSIVE UpdateIncrementalFrom(_, _)
UpdateIncrementalFrom(this, i) ==
    IF i > Len(this.m_pLightList.lights) THEN this
    ELSE LET descr == this.m_pLightList.lights[i]
             infos == this.m_pIncrementalLightInfoList
             found == FindInfo(infos, descr.m_nObjectID)
             bound ==
                IF found # 0
                THEN [this EXCEPT
                        !.m_pLightList.lights[i].m_pIncrementalInfo = found,
                        !.m_pIncrementalLightInfoList[found].m_pLight = i]
                ELSE [this EXCEPT
                        !.m_pLightList.lights[i].m_pIncrementalInfo = Len(infos) + 1,
                        !.m_pIncrementalLightInfoList =
                            Append(infos, [NewIncrementalLightInfo EXCEPT
                                            !.m_nObjectID = descr.m_nObjectID,
                                            !.m_pLight = i])]
         IN  UpdateIncrementalFrom(bound, i + 1)

UpdateIncrementalForNewLightList(this) == UpdateIncrementalFrom(this, 1)

\* Vector::DistTo, in one dimension
DistTo(a, b) == Abs(a - b)

\* the light of the current list bound to record k, or 0
LightOfInfo(this, k) ==
    IF this.m_pLightList.null THEN 0
    ELSE LET ls == {i \in 1 .. Len(this.m_pLightList.lights) :
                        this.m_pLightList.lights[i].m_pIncrementalInfo = k}
         IN  IF ls = {} THEN 0 ELSE CHOOSE i \in ls : \A j \in ls : j <= i

\* DiscardResults without "m_nContributionCounter++" and the distance loop
DiscardResultsOnce(this) ==
    [this EXCEPT
        !.m_pIncrementalLightInfoList =
            [k \in 1 .. Len(@) |-> InfoDiscardResults(@[k])],
        !.m_bResultChangedSinceLastSend = TRUE,
        !.sinceLastSend = ForceSendBackdate]

\* CLightingPreviewThread::DiscardResults
DiscardResults(this) ==
    [this EXCEPT
        !.m_pIncrementalLightInfoList =
            [k \in 1 .. Len(@) |->
                LET l == LightOfInfo(this, k)
                    d == InfoDiscardResults(@[k])
                IN  IF l = 0 THEN d
                    ELSE [d EXCEPT !.m_fDistanceToEye =
                            IF this.m_pLightList.lights[l].m_Type = MATERIAL_LIGHT_DIRECTIONAL
                            THEN 0
                            ELSE DistTo(this.m_LastEyePosition,
                                        this.m_pLightList.lights[l].m_Position)]],
        !.m_nContributionCounter = @ + 1,
        !.m_bResultChangedSinceLastSend = TRUE,
        !.sinceLastSend = ForceSendBackdate]

\* case LPREVIEW_MSG_LIGHT_DATA of HandleAMessage
HandleLightData(this, lights, eye) ==
    DiscardResults(UpdateIncrementalForNewLightList(
        [this EXCEPT !.m_pLightList = LightListAt(lights), !.m_LastEyePosition = eye]))

\* the loop of HandleGeomMessage takes tris[i], tris[1 + i], tris[2 + i] for
\* i = 0, 3, ... below Count(): the indices it reads at or past Count()
ReadPastTriangles(nTris) ==
    {i + d : i \in {j \in 0 .. (nTris - 1) : j % 3 = 0}, d \in 0 .. 2}
        \ (0 .. (nTris - 1))

\* CLightingPreviewThread::HandleGeomMessage; a vertex read past the end of
\* the list, where the read succeeds, is some vector
HandleGeomMessage(this, nTris) ==
    DiscardResults(
        [this EXCEPT !.m_pRtEnv = IF nTris # 0 THEN "RayTracingEnvironment" ELSE NullPtr,
                     !.m_bAccStructureBuilt = FALSE])

\* case LPREVIEW_MSG_GEOM_DATA of HandleAMessage
HandleGeomData(this, nTris) == DiscardResults(HandleGeomMessage(this, nTris))

Min(a, b) == IF a < b THEN a ELSE b
Max(a, b) == IF a < b THEN b ELSE a

\* CLightingPreviewThread::CalculateSceneBounds; the pixels of m_Positions
\* lie between posLo and posHi
CalculateSceneBounds(this, posLo, posHi) ==
    IF this.m_Positions.m_nHeight = 0
    THEN [this EXCEPT !.m_MinViewCoords = this.m_LastEyePosition,
                      !.m_MaxViewCoords = this.m_LastEyePosition]
    ELSE [this EXCEPT !.m_MinViewCoords = Min(this.m_LastEyePosition, posLo),
                      !.m_MaxViewCoords = Max(this.m_LastEyePosition, posHi)]

\* HandleGBuffersMessage without the copy of m_nBitmapGenerationCounter
HandleGBuffersMessageNoGen(this, generation, heights, eye, posLo, posHi) ==
    CalculateSceneBounds(
        [this EXCEPT !.m_Albedos = [m_nHeight |-> heights[1]],
                     !.m_Normals = [m_nHeight |-> heights[2]],
                     !.m_Positions = [m_nHeight |-> heights[3]],
                     !.m_LastEyePosition = eye],
        posLo, posHi)

\* CLightingPreviewThread::HandleGBuffersMessage; heights are those of
\* m_pDefferedRenderingBMs[0], [1] and [2]
HandleGBuffersMessage(this, generation, heights, eye, posLo, posHi) ==
    CalculateSceneBounds(
        [this EXCEPT !.m_Albedos = [m_nHeight |-> heights[1]],
                     !.m_Normals = [m_nHeight |-> heights[2]],
                     !.m_Positions = [m_nHeight |-> heights[3]],
                     !.m_LastEyePosition = eye,
                     !.m_nBitmapGenerationCounter = generation],
        posLo, posHi)

\* case LPREVIEW_MSG_G_BUFFERS of HandleAMessage
HandleGBuffers(this, generation, heights, eye, posLo, posHi) ==
    DiscardResults(HandleGBuffersMessage(this, generation, heights, eye, posLo, posHi))

\* the record a light of the list points to
InfoOf(this, i) ==
    this.m_pIncrementalLightInfoList[this.m_pLightList.lights[i].m_pIncrementalInfo]

\* CLightingPreviewThread::AnyUsefulWorkToDo
AnyUsefulWorkToDo(this) ==
    /\ ~this.m_pLightList.null
    /\ \E i \in 1 .. Len(this.m_pLightList.lights) : HasWorkToDo(InfoOf(this, i))
    /\ this.m_pRtEnv # NullPtr

\* ------------------------------------------------------- the shading kernel
\* a & b on naturals
RECURSIVE BitAnd(_, _)
BitAnd(a, b) ==
    IF a = 0 \/ b = 0 THEN 0
    ELSE (a % 2) * (b % 2) + 2 * BitAnd(a \div 2, b \div 2)

\* "do this line?": the bit of row y in calc_mask
LineSelected(y, calc_mask) == (y % N_INCREMENTAL_STEPS) \in calc_mask

\* work_line_number when the loop of CalculateForLightTask reaches row y
WorkLineNumber(y, calc_mask) ==
    Cardinality({z \in 0 .. (y - 1) : LineSelected(z, calc_mask)})

\* "( work_line_number & nLineMask ) == nLineMatch" without the mask: every
\* task takes every line
TaskTakesEveryLine(work_line_number, nLineMask, nLineMatch) == TRUE

\* ( work_line_number & nLineMask ) == nLineMatch
TaskTakesLine(work_line_number, nLineMask, nLineMatch) ==
    BitAnd(work_line_number, nLineMask) = nLineMatch

\* the rows of rslt one CalculateForLightTask call writes
CalculateForLightTask(nLineMask, nLineMatch, calc_mask, height) ==
    {y \in 0 .. (height - 1) :
        /\ LineSelected(y, calc_mask)
        /\ TaskTakesLine(WorkLineNumber(y, calc_mask), nLineMask, nLineMatch)}

\* the rows at which a CalculateForLightTask call reads m_Positions and
\* m_Normals although the matrix has no such row
ReadPastRows(rows, matrix) == {y \in rows : y >= matrix.m_nHeight}

\* the four calls of ExecuteParallel: (nLineMask, nLineMatch)
Tasks == 0 .. 3
TaskLineMask == 3

\* what the tasks report in *fContributionOut: the light they found on the
\* rows they computed; a task that computed no row reports 0
TaskOutputs(calc_mask, height) ==
    LET idle == {t \in Tasks :
                    CalculateForLightTask(TaskLineMask, t, calc_mask, height) = {}}
    IN  {out \in [Tasks -> 0 .. MaxLight] : \A t \in idle : out[t] = 0}

\* the rows the four tasks of one CalculateForLight call compute
RowsToCompute(calc_mask, height) ==
    UNION {CalculateForLightTask(TaskLineMask, t, calc_mask, height) : t \in Tasks}

\* new_incr_level without "1 +"
NewIncrLevelStuck(info) ==
    IF info.m_eIncrState = INCR_STATE_PARTIAL_RESULTS
    THEN info.m_PartialResultsStage ELSE 0

\* the level the next pass on this record computes
NewIncrLevel(info) ==
    IF info.m_eIncrState = INCR_STATE_PARTIAL_RESULTS
    THEN 1 + info.m_PartialResultsStage ELSE 0

\* calc_mask = m_LineMask[new_incr_level] & ~prev_msk
CalcMask(info) ==
    LET prev_msk == IF info.m_eIncrState = INCR_STATE_PARTIAL_RESULTS
                    THEN m_LineMask[info.m_PartialResultsStage] ELSE {}
    IN  m_LineMask[NewIncrLevel(info)] \ prev_msk

\* CalculateForLight without "if ( total == 0 ) SetSize( 0, 0 )"
CalculateForLightInfoKept(this, info, out) ==
    LET height == this.m_Albedos.m_nHeight
        sized == SetSize(info.m_CalculatedContribution, height)
        written == UNION {CalculateForLightTask(TaskLineMask, t, CalcMask(info), height) :
                            t \in Tasks}
        total == out[0] + out[1] + out[2] + out[3]
    IN  [info EXCEPT
            !.m_fTotalContribution = total,
            !.m_CalculatedContribution = [sized EXCEPT !.rows = @ \cup written],
            !.m_nMostRecentNonZeroContributionTimeStamp =
                IF total = 0 THEN @ ELSE this.m_nContributionCounter,
            !.m_PartialResultsStage = NewIncrLevel(info),
            !.m_eIncrState =
                IF NewIncrLevel(info) = N_INCREMENTAL_STEPS - 1
                THEN INCR_STATE_HAVE_FULL_RESULTS
                ELSE INCR_STATE_PARTIAL_RESULTS]

\* CalculateForLight with "new_incr_level >= N_INCREMENTAL_STEPS-2" as its
\* test for full results
CalculateForLightInfoEarlyFull(this, info, out) ==
    LET height == this.m_Albedos.m_nHeight
        sized == SetSize(info.m_CalculatedContribution, height)
        written == RowsToCompute(CalcMask(info), height)
        total == out[0] + out[1] + out[2] + out[3]
    IN  [info EXCEPT
            !.m_fTotalContribution = total,
            !.m_CalculatedContribution =
                IF total = 0 THEN SetSize(sized, 0)
                ELSE [sized EXCEPT !.rows = @ \cup written],
            !.m_nMostRecentNonZeroContributionTimeStamp =
                IF total = 0 THEN @ ELSE this.m_nContributionCounter,
            !.m_PartialResultsStage = NewIncrLevel(info),
            !.m_eIncrState =
                IF NewIncrLevel(info) >= N_INCREMENTAL_STEPS - 2
                THEN INCR_STATE_HAVE_FULL_RESULTS
                ELSE INCR_STATE_PARTIAL_RESULTS]

\* the record of a light after CalculateForLight; out is what the four
\* tasks returned
CalculateForLightInfo(this, info, out) ==
    LET height == this.m_Albedos.m_nHeight
        sized == SetSize(info.m_CalculatedContribution, height)
        calc_mask == CalcMask(info)
        written == UNION {CalculateForLightTask(TaskLineMask, t, calc_mask, height) :
                            t \in Tasks}
        total == out[0] + out[1] + out[2] + out[3]
        new_incr_level == NewIncrLevel(info)
    IN  [info EXCEPT
            !.m_fTotalContribution = total,
            !.m_CalculatedContribution =
                IF total = 0 THEN SetSize(sized, 0)
                ELSE [sized EXCEPT !.rows = @ \cup written],
            !.m_nMostRecentNonZeroContributionTimeStamp =
                IF total = 0 THEN @ ELSE this.m_nContributionCounter,
            !.m_PartialResultsStage = new_incr_level,
            !.m_eIncrState =
                IF new_incr_level = N_INCREMENTAL_STEPS - 1
                THEN INCR_STATE_HAVE_FULL_RESULTS
                ELSE INCR_STATE_PARTIAL_RESULTS]

\* CLightingPreviewThread::CalculateForLight on light l of the list
CalculateForLight(this, l, out) ==
    LET k == this.m_pLightList.lights[l].m_pIncrementalInfo
    IN  [this EXCEPT
            !.m_bAccStructureBuilt = (this.m_pRtEnv # NullPtr) \/ @,
            !.m_pIncrementalLightInfoList[k] = CalculateForLightInfo(this, @, out)]

\* the loop of DoWork over the lights from i on; best_l = 0 is the null pointer
RECURSIVE BestLightFrom(_, _, _)
BestLightFrom(this, i, best_l) ==
    IF i > Len(this.m_pLightList.lights) THEN best_l
    ELSE IF /\ HasWorkToDo(InfoOf(this, i))
            /\ \/ best_l = 0
               \/ IsLowerPriorityThan(InfoOf(this, best_l), this, InfoOf(this, i))
         THEN BestLightFrom(this, i + 1, i)
         ELSE BestLightFrom(this, i + 1, best_l)

\* the light DoWork passes to CalculateForLight, or 0
BestLight(this) ==
    IF this.m_pLightList.null THEN 0 ELSE BestLightFrom(this, 1, 0)

\* CLightingPreviewThread::DoWork
DoWork(this, out) ==
    LET best_l == BestLight(this)
    IN  IF best_l = 0 THEN this
        ELSE LET after == CalculateForLight(this, best_l, out)
             IN  [after EXCEPT !.m_bResultChangedSinceLastSend =
                    (InfoOf(after, best_l).m_fTotalContribution # 0) \/ @]

\* ----------------------------------------------------------- the compositor
\* the lights SendResult adds to the result image
Composited(this) ==
    {i \in 1 .. Len(this.m_pLightList.lights) :
        /\ InfoOf(this, i).m_fTotalContribution > 0
        /\ InfoOf(this, i).m_eIncrState >= INCR_STATE_PARTIAL_RESULTS}

\* the rows of a light's matrix SendResult reads
SourceRows(this, i) ==
    {(y - (y % N_INCREMENTAL_STEPS))
        + m_ClosestLineOffset[InfoOf(this, i).m_PartialResultsStage][y % N_INCREMENTAL_STEPS] :
        y \in 0 .. (this.m_Albedos.m_nHeight - 1)}

\* SendResult and the lines of Run after it without
\* "m_fLastSendTime = Plat_FloatTime()"
SendResultNoStamp(this) ==
    [this EXCEPT !.m_bResultChangedSinceLastSend = FALSE]

\* CLightingPreviewThread::SendResult; the caller queues the bitmap with
\* m_nBitmapGenerationCounter attached
SendResult(this) ==
    [this EXCEPT !.sinceLastSend = 0, !.m_bResultChangedSinceLastSend = FALSE]

\* SendVectorMatrixAsRendering without the copy of m_nBitmapGenerationCounter
SendVectorMatrixAsRenderingUnset(this) == 0

\* SendVectorMatrixAsRendering: the generation the DisplayResult carries
SendVectorMatrixAsRendering(this) == this.m_nBitmapGenerationCounter

\* ---------------------------------------------------------------- messages
LPREVIEW_MSG_EXIT == "EXIT"
LPREVIEW_MSG_LIGHT_DATA == "LIGHT_DATA"
LPREVIEW_MSG_GEOM_DATA == "GEOM_DATA"
LPREVIEW_MSG_G_BUFFERS == "G_BUFFERS"

\* A queued message is its type and, for G-buffers, its generation counter.
\* Nothing reads the rest of a message while it is queued: the handler
\* draws it when it takes the message.
Message(type, generation) ==
    [m_MsgType |-> type, m_nBitmapGenerationCounter |-> generation]

\* ------------------------------------------------------------------- Init
Init ==
    /\ LPreviewObject \in Constructed
    /\ pc = "messages"
    /\ should_quit = FALSE
    /\ tasks = NoTasks
    /\ g_HammerToLPreviewMsgQueue = <<>>
    /\ g_LPreviewToHammerMsgQueue = <<>>
    /\ host = [left |-> MaxMessages, generation |-> 0, exited |-> FALSE]
    /\ history = [owed |-> FALSE, handled |-> 0, early |-> FALSE,
                  elapsed |-> SendPeriod + 1, gap |-> SendPeriod + 1,
                  runs |-> <<>>]

\* ------------------------------------------------------------------- host
\* the host queues a message of the given type
HostQueue(type, generation) ==
    /\ host.left > 0
    /\ ~host.exited
    /\ g_HammerToLPreviewMsgQueue' =
            Append(g_HammerToLPreviewMsgQueue, Message(type, generation))
    /\ UNCHANGED <<LPreviewObject, pc, should_quit, g_LPreviewToHammerMsgQueue, tasks>>

HostSendExit ==
    /\ HostQueue(LPREVIEW_MSG_EXIT, 0)
    /\ host' = [host EXCEPT !.left = @ - 1, !.exited = TRUE]
    /\ UNCHANGED history

HostSendLightData ==
    /\ HostQueue(LPREVIEW_MSG_LIGHT_DATA, 0)
    /\ host' = [host EXCEPT !.left = @ - 1]
    /\ UNCHANGED history

HostSendGeomData ==
    /\ HostQueue(LPREVIEW_MSG_GEOM_DATA, 0)
    /\ host' = [host EXCEPT !.left = @ - 1]
    /\ UNCHANGED history

\* a kernel run has been completed: a record leaves INCR_STATE_NEW in
\* CalculateForLight and nowhere else, and never returns to it
KernelRan(this) ==
    \E k \in 1 .. Len(this.m_pIncrementalLightInfoList) :
        this.m_pIncrementalLightInfoList[k].m_eIncrState # INCR_STATE_NEW

\* each rendering of the G-buffers carries the next generation number
HostSendGBuffers ==
    /\ HostQueue(LPREVIEW_MSG_G_BUFFERS, host.generation + 1)
    /\ host' = [host EXCEPT !.left = @ - 1, !.generation = @ + 1]
    /\ history' = [history EXCEPT
                    !.early = @ \/ (host.generation = 1 /\ ~KernelRan(LPreviewObject))]

\* ----------------------------------------------------------- the Run loop
\* no kernel run on any record since the discard that just happened
NoRuns(this) == [k \in 1 .. Len(this.m_pIncrementalLightInfoList) |-> 0]

\* HandleAMessage is reached with a message waiting, or blocks in
\* WaitMessage until one arrives
Receive(type) ==
    /\ pc = "messages"
    /\ ~should_quit
    /\ g_HammerToLPreviewMsgQueue # <<>>
    /\ Head(g_HammerToLPreviewMsgQueue).m_MsgType = type
    /\ g_HammerToLPreviewMsgQueue' = Tail(g_HammerToLPreviewMsgQueue)
    /\ UNCHANGED <<pc, g_LPreviewToHammerMsgQueue, host, tasks>>

RecvExit ==
    /\ Receive(LPREVIEW_MSG_EXIT)
    /\ should_quit' = TRUE
    /\ UNCHANGED <<LPreviewObject, history>>

RecvLightData ==
    /\ Receive(LPREVIEW_MSG_LIGHT_DATA)
    /\ \E lights \in LightLists, eye \in Coords :
            LPreviewObject' = HandleLightData(LPreviewObject, lights, eye)
    /\ history' = [history EXCEPT !.owed = TRUE, !.runs = NoRuns(LPreviewObject')]
    /\ UNCHANGED should_quit

RecvGeomData ==
    /\ Receive(LPREVIEW_MSG_GEOM_DATA)
    /\ \E nTris \in TriangleCounts :
            LPreviewObject' = HandleGeomData(LPreviewObject, nTris)
    /\ history' = [history EXCEPT !.owed = TRUE, !.runs = NoRuns(LPreviewObject')]
    /\ UNCHANGED should_quit

\* HandleGeomMessage reads a vertex past the end of the triangle list and the
\* read faults
RecvGeomDataBadRead ==
    /\ pc = "messages"
    /\ ~should_quit
    /\ g_HammerToLPreviewMsgQueue # <<>>
    /\ Head(g_HammerToLPreviewMsgQueue).m_MsgType = LPREVIEW_MSG_GEOM_DATA
    /\ \E nTris \in TriangleCounts : ReadPastTriangles(nTris) # {}
    /\ g_HammerToLPreviewMsgQueue' = Tail(g_HammerToLPreviewMsgQueue)
    /\ pc' = "crashed"
    /\ UNCHANGED <<LPreviewObject, should_quit, g_LPreviewToHammerMsgQueue,
                   host, tasks, history>>

RecvGBuffers ==
    /\ Receive(LPREVIEW_MSG_G_BUFFERS)
    /\ \E heights \in GBufferHeights, eye \in Coords, posLo \in Coords, posHi \in Coords :
            /\ posLo <= posHi
            /\ LPreviewObject' =
                    HandleGBuffers(LPreviewObject,
                        Head(g_HammerToLPreviewMsgQueue).m_nBitmapGenerationCounter,
                        heights, eye, posLo, posHi)
    /\ history' = [history EXCEPT
                    !.owed = TRUE,
                    !.handled = Head(g_HammerToLPreviewMsgQueue).m_nBitmapGenerationCounter,
                    !.runs = NoRuns(LPreviewObject')]
    /\ UNCHANGED should_quit

\* the inner while loop with "!should_quit && !AnyUsefulWorkToDo()" as its
\* condition: it ends without a look at the queue
LeaveMessageLoopUnpolled ==
    /\ pc = "messages"
    /\ should_quit \/ AnyUsefulWorkToDo(LPreviewObject)
    /\ pc' = "work"
    /\ UNCHANGED <<LPreviewObject, should_quit, g_HammerToLPreviewMsgQueue,
                   g_LPreviewToHammerMsgQueue, host, tasks, history>>

\* the inner while loop ends
LeaveMessageLoop ==
    /\ pc = "messages"
    /\ \/ should_quit
       \/ /\ AnyUsefulWorkToDo(LPreviewObject)
          /\ g_HammerToLPreviewMsgQueue = <<>>
    /\ pc' = "work"
    /\ UNCHANGED <<LPreviewObject, should_quit, g_HammerToLPreviewMsgQueue,
                   g_LPreviewToHammerMsgQueue, host, tasks, history>>

WorkReady == pc = "work" /\ ~should_quit /\ AnyUsefulWorkToDo(LPreviewObject)

\* the record of the light DoWork passes to CalculateForLight
BestRecord(this) == this.m_pLightList.lights[BestLight(this)].m_pIncrementalInfo

\* if ( !should_quit && AnyUsefulWorkToDo() ) DoWork();
RunDoWork ==
    /\ WorkReady
    /\ LET info == InfoOf(LPreviewObject, BestLight(LPreviewObject))
       IN  \E out \in TaskOutputs(CalcMask(info), LPreviewObject.m_Albedos.m_nHeight) :
                LPreviewObject' = DoWork(LPreviewObject, out)
    /\ pc' = "send"
    /\ history' = [history EXCEPT !.runs[BestRecord(LPreviewObject)] =
                                        Min(@ + 1, N_INCREMENTAL_STEPS + 1)]
    /\ UNCHANGED <<should_quit, g_HammerToLPreviewMsgQueue,
                   g_LPreviewToHammerMsgQueue, host, tasks>>

\* a task of the kernel run reads a row of m_Positions or m_Normals that the
\* matrix does not have, and the read faults
RunDoWorkBadRead ==
    /\ WorkReady
    /\ \/ LPreviewObject.m_Positions.m_nHeight < LPreviewObject.m_Albedos.m_nHeight
       \/ LPreviewObject.m_Normals.m_nHeight < LPreviewObject.m_Albedos.m_nHeight
    /\ LET info == InfoOf(LPreviewObject, BestLight(LPreviewObject))
           rows == RowsToCompute(CalcMask(info), LPreviewObject.m_Albedos.m_nHeight)
       IN  \/ ReadPastRows(rows, LPreviewObject.m_Positions) # {}
           \/ ReadPastRows(rows, LPreviewObject.m_Normals) # {}
    /\ pc' = "crashed"
    /\ UNCHANGED <<LPreviewObject, should_quit, g_HammerToLPreviewMsgQueue,
                   g_LPreviewToHammerMsgQueue, host, tasks, history>>

\* the level the next kernel run computes
NextLevel == NewIncrLevel(InfoOf(LPreviewObject, BestLight(LPreviewObject)))

\* a kernel run among the first levels of the schedule
RunDoWorkEarly == WorkReady /\ NextLevel < MaxLevels /\ RunDoWork

\* a kernel run among the last levels of the schedule
RunDoWorkLate ==
    WorkReady /\ NextLevel >= N_INCREMENTAL_STEPS - MaxLevels /\ RunDoWork

SkipDoWork ==
    /\ pc = "work"
    /\ should_quit \/ ~AnyUsefulWorkToDo(LPreviewObject)
    /\ pc' = "send"
    /\ UNCHANGED <<LPreviewObject, should_quit, g_HammerToLPreviewMsgQueue,
                   g_LPreviewToHammerMsgQueue, host, tasks, history>>

\* the condition under which Run calls SendResult
SendDue(this) ==
    /\ this.m_bResultChangedSinceLastSend
    /\ \/ this.sinceLastSend > SendPeriod
       \/ ~AnyUsefulWorkToDo(this)

AfterRunBody == IF should_quit THEN "done" ELSE "messages"

\* SendResult(), then the two assignments of Run that follow it
RunSendResult ==
    /\ pc = "send"
    /\ SendDue(LPreviewObject)
    /\ ~LPreviewObject.m_pLightList.null
    /\ g_LPreviewToHammerMsgQueue' = <<SendVectorMatrixAsRendering(LPreviewObject)>>
    /\ LPreviewObject' = SendResult(LPreviewObject)
    /\ pc' = "sent"
    /\ history' = [history EXCEPT !.owed = FALSE, !.elapsed = 0,
                                   !.gap = history.elapsed]
    /\ UNCHANGED <<should_quit, g_HammerToLPreviewMsgQueue, host, tasks>>

\* SendResult() reads m_pLightList->Count() through a null pointer
RunSendResultNoList ==
    /\ pc = "send"
    /\ SendDue(LPreviewObject)
    /\ LPreviewObject.m_pLightList.null
    /\ pc' = "crashed"
    /\ UNCHANGED <<LPreviewObject, should_quit, g_HammerToLPreviewMsgQueue,
                   g_LPreviewToHammerMsgQueue, host, tasks, history>>

AfterSendResult ==
    /\ pc = "sent"
    /\ pc' = AfterRunBody
    /\ history' = [history EXCEPT !.gap = SendPeriod + 1]
    /\ UNCHANGED <<LPreviewObject, should_quit, g_HammerToLPreviewMsgQueue,
                   g_LPreviewToHammerMsgQueue, host, tasks>>

SkipSendResult ==
    /\ pc = "send"
    /\ ~SendDue(LPreviewObject)
    /\ pc' = AfterRunBody
    /\ UNCHANGED <<LPreviewObject, should_quit, g_HammerToLPreviewMsgQueue,
                   g_LPreviewToHammerMsgQueue, host, tasks, history>>

\* the seconds that pass in one step of time: just enough to bring a
\* backdated m_fLastSendTime past the send period, or a whole send period
ShortWait == SendPeriod - ForceSendBackdate + 1
Waits == {ShortWait, SendPeriod + 1}

\* seconds, saturated just above the send period
Later(t, d) == IF t + d > SendPeriod THEN SendPeriod + 1 ELSE t + d

\* time passes: Plat_FloatTime() moves on; the short wait is taken only
\* where it changes what Run does next, after a discard
Tick ==
    /\ pc \notin {"done", "crashed"}
    /\ \E d \in Waits :
        /\ d = ShortWait => LPreviewObject.sinceLastSend = ForceSendBackdate
        /\ \/ LPreviewObject.sinceLastSend <= SendPeriod
           \/ history.elapsed <= SendPeriod
        /\ LPreviewObject' =
                [LPreviewObject EXCEPT !.sinceLastSend = Later(@, d)]
        /\ history' = [history EXCEPT !.elapsed = Later(@, d)]
    /\ UNCHANGED <<pc, should_quit, g_HammerToLPreviewMsgQueue,
                   g_LPreviewToHammerMsgQueue, host, tasks>>

Host == HostSendExit \/ HostSendLightData \/ HostSendGeomData \/ HostSendGBuffers

Worker ==
    \/ RecvExit \/ RecvLightData \/ RecvGeomData \/ RecvGeomDataBadRead \/ RecvGBuffers
    \/ LeaveMessageLoop \/ RunDoWorkEarly \/ RunDoWorkBadRead \/ SkipDoWork
    \/ RunSendResult \/ RunSendResultNoList \/ AfterSendResult \/ SkipSendResult

Next == Host \/ Worker \/ Tick

\* the thread from its construction on, with a host that sends any messages
Spec == Init /\ [][Next]_vars

\* --------------------------------------------------- a scene without geometry
\* The host never sends geometry: no RayTracingEnvironment exists and DoWork
\* is never called.
IdleWorker ==
    \/ RecvExit \/ RecvLightData \/ RecvGBuffers
    \/ LeaveMessageLoop \/ SkipDoWork
    \/ RunSendResult \/ RunSendResultNoList \/ AfterSendResult \/ SkipSendResult

NextIdle == HostSendExit \/ HostSendLightData \/ HostSendGBuffers \/ IdleWorker \/ Tick

\* The thread runs whenever it can take a step, and time passes; the host is
\* free never to send another message.
SpecIdle == Init /\ [][NextIdle]_vars /\ WF_vars(IdleWorker) /\ WF_vars(Tick)

\* ------------------------------------------------------------ a loaded scene
\* the thread after it handled a list of two lights, a triangle list and the
\* first rendering of the G-buffers
InitScene ==
    /\ \E c \in Constructed, lights \in LightPairs, eye \in Coords,
          height \in Heights, posLo \in Coords, posHi \in Coords :
            /\ posLo <= posHi
            /\ LPreviewObject =
                HandleGBuffers(HandleGeomData(HandleLightData(c, lights, eye), 3),
                               1, SameHeights(height), eye, posLo, posHi)
    /\ pc = "messages"
    /\ should_quit = FALSE
    /\ tasks = NoTasks
    /\ g_HammerToLPreviewMsgQueue = <<>>
    /\ g_LPreviewToHammerMsgQueue = <<>>
    /\ host = [left |-> MaxFollowUps, generation |-> 1, exited |-> FALSE]
    /\ history = [owed |-> TRUE, handled |-> 1, early |-> FALSE,
                  elapsed |-> SendPeriod + 1, gap |-> SendPeriod + 1,
                  runs |-> NoRuns(LPreviewObject)]

\* the host renders the G-buffers again and again; the lights refine
NextScene ==
    \/ HostSendGBuffers \/ RecvGBuffers
    \/ LeaveMessageLoop \/ RunDoWorkEarly \/ RunDoWorkBadRead
    \/ RunSendResult \/ AfterSendResult \/ SkipSendResult
    \/ Tick

SpecScene == InitScene /\ [][NextScene]_vars

\* ------------------------------------------------- the end of the refinement
\* DoWork called n times in a row, the tasks reporting the same each time
RECURSIVE DoWorkTimes(_, _, _)
DoWorkTimes(this, n, out) ==
    IF n = 0 \/ ~AnyUsefulWorkToDo(this) THEN this
    ELSE IF n = 1 THEN DoWork(this, out)
    ELSE DoWorkTimes(DoWorkTimes(this, n \div 2, out), n - n \div 2, out)

\* the thread after it handled G-buffers, a list of one light and a triangle
\* list, and refined the light up to the last MaxLevels levels
InitLate ==
    /\ \E c \in Constructed, light \in LightDescriptions, eye \in Coords,
          posLo \in Coords, posHi \in Coords, light_found \in 0 .. MaxLight :
            /\ posLo <= posHi
            /\ LPreviewObject =
                DoWorkTimes(
                    HandleGeomData(
                        HandleLightData(
                            HandleGBuffers(c, 1, SameHeights(N_INCREMENTAL_STEPS + 1),
                                           eye, posLo, posHi),
                            <<light>>, eye),
                        3),
                    N_INCREMENTAL_STEPS - MaxLevels,
                    [t \in Tasks |-> light_found])
    /\ pc = "messages"
    /\ should_quit = FALSE
    /\ tasks = NoTasks
    /\ g_HammerToLPreviewMsgQueue = <<>>
    /\ g_LPreviewToHammerMsgQueue = <<>>
    /\ host = [left |-> MaxFollowUps, generation |-> 1, exited |-> FALSE]
    /\ history = [owed |-> TRUE, handled |-> 1, early |-> FALSE,
                  elapsed |-> SendPeriod + 1, gap |-> SendPeriod + 1,
                  runs |-> <<N_INCREMENTAL_STEPS - MaxLevels>>]

\* the light list is never null here
NextLate ==
    \/ Host
    \/ RecvExit \/ RecvLightData \/ RecvGeomData \/ RecvGeomDataBadRead \/ RecvGBuffers
    \/ LeaveMessageLoop \/ RunDoWorkEarly \/ RunDoWorkLate \/ RunDoWorkBadRead
    \/ SkipDoWork
    \/ RunSendResult \/ AfterSendResult \/ SkipSendResult
    \/ Tick

SpecLate == InitLate /\ [][NextLate]_vars

\* ------------------------------------------------------ a scene left alone
\* the scenes refined from the first level to the last: one point light
\* before an image of some height, or two point lights before an empty image
ConvergeScenes ==
    {sc \in ({<<p[1]>> : p \in LightPairs} \cup LightPairs) \X Heights :
        Len(sc[1]) > 1 => sc[2] = 0}

\* the thread after it handled G-buffers, a light list and a triangle list
InitConverge ==
    /\ \E c \in Constructed, sc \in ConvergeScenes, eye \in Coords :
            LPreviewObject =
                HandleGeomData(
                    HandleLightData(
                        HandleGBuffers(c, 1, SameHeights(sc[2]), eye, eye, eye),
                        sc[1], eye),
                    3)
    /\ pc = "messages"
    /\ should_quit = FALSE
    /\ tasks = NoTasks
    /\ g_HammerToLPreviewMsgQueue = <<>>
    /\ g_LPreviewToHammerMsgQueue = <<>>
    /\ host = [left |-> 0, generation |-> 1, exited |-> FALSE]
    /\ history = [owed |-> TRUE, handled |-> 1, early |-> FALSE,
                  elapsed |-> SendPeriod + 1, gap |-> SendPeriod + 1,
                  runs |-> NoRuns(LPreviewObject)]

\* a kernel run in a scene whose lighting stays as it is: a pass on a
\* Partial record finds light exactly if the pass before it did
RunDoWorkSteady ==
    /\ RunDoWork
    /\ LET k == BestRecord(LPreviewObject)
           before == LPreviewObject.m_pIncrementalLightInfoList[k]
           after == LPreviewObject'.m_pIncrementalLightInfoList[k]
       IN  before.m_eIncrState = INCR_STATE_PARTIAL_RESULTS =>
                (after.m_fTotalContribution > 0 <=> before.m_fTotalContribution > 0)

\* the steps of Run when no message arrives
LoneWorker ==
    \/ LeaveMessageLoop \/ RunDoWorkSteady
    \/ RunSendResult \/ AfterSendResult \/ SkipSendResult

NextConverge == LoneWorker \/ Tick

\* the host sends nothing more; the thread runs whenever it can take a step
SpecConverge == InitConverge /\ [][NextConverge]_vars /\ WF_vars(LoneWorker)
\* ------------------------------------------------ the fan-out of a kernel run
\* image heights that give the tasks of one level more rows than there are
\* tasks, or fewer
KernelHeights == {N_INCREMENTAL_STEPS + 1, 5 * N_INCREMENTAL_STEPS + 1}

\* the thread after it handled G-buffers, a list of one light and a triangle
\* list
InitKernel ==
    /\ \E c \in Constructed, p \in LightPairs, height \in KernelHeights, eye \in Coords :
            LPreviewObject =
                HandleGeomData(
                    HandleLightData(
                        HandleGBuffers(c, 1, SameHeights(height), eye, eye, eye),
                        <<p[1]>>, eye),
                    3)
    /\ pc = "messages"
    /\ should_quit = FALSE
    /\ tasks = NoTasks
    /\ g_HammerToLPreviewMsgQueue = <<>>
    /\ g_LPreviewToHammerMsgQueue = <<>>
    /\ host = [left |-> 0, generation |-> 1, exited |-> FALSE]
    /\ history = [owed |-> TRUE, handled |-> 1, early |-> FALSE,
                  elapsed |-> SendPeriod + 1, gap |-> SendPeriod + 1,
                  runs |-> NoRuns(LPreviewObject)]

\* a CalculateForLightTask call that has just been entered
TaskEntered == [y |-> 0, work_line_number |-> 0, written |-> {}]

\* DoWork up to EndExecuteParallel: the light is chosen, CalculateForLight
\* sizes its matrix and computes calc_mask, and the four tasks are started
KernelBegin ==
    /\ WorkReady
    /\ NextLevel < MaxLevels
    /\ LET l == BestLight(LPreviewObject)
           k == BestRecord(LPreviewObject)
       IN  /\ LPreviewObject' =
                [LPreviewObject EXCEPT
                    !.m_bAccStructureBuilt = (LPreviewObject.m_pRtEnv # NullPtr) \/ @,
                    !.m_pIncrementalLightInfoList[k].m_CalculatedContribution =
                        SetSize(@, LPreviewObject.m_Albedos.m_nHeight)]
           /\ tasks' = [l |-> l,
                        calc_mask |-> CalcMask(InfoOf(LPreviewObject, l)),
                        slot |-> [t \in Tasks |-> TaskEntered]]
    /\ pc' = "kernel"
    /\ UNCHANGED <<should_quit, g_HammerToLPreviewMsgQueue,
                   g_LPreviewToHammerMsgQueue, host, history>>

\* the matrix the tasks in flight write to
TaskMatrix == InfoOf(LPreviewObject, tasks.l).m_CalculatedContribution

\* the first row from y on that passes the test "do this line?", or the
\* height of the matrix
NextLine(y, calc_mask, height) ==
    LET lines == {r \in y .. (height - 1) : LineSelected(r, calc_mask)}
    IN  IF lines = {} THEN height
        ELSE CHOOSE r \in lines : \A q \in lines : r <= q

\* task t has left its loop over the rows
TaskReturned(t) == tasks.slot[t].y >= TaskMatrix.m_nHeight

\* the loop of task t runs on to the next row that calc_mask selects and
\* through it: the row is written if the task takes the line
TaskStep(t) ==
    /\ pc = "kernel"
    /\ ~TaskReturned(t)
    /\ LET slot == tasks.slot[t]
           k == LPreviewObject.m_pLightList.lights[tasks.l].m_pIncrementalInfo
           y == NextLine(slot.y, tasks.calc_mask, TaskMatrix.m_nHeight)
       IN  IF y = TaskMatrix.m_nHeight
           THEN /\ tasks' = [tasks EXCEPT !.slot[t].y = y]
                /\ UNCHANGED LPreviewObject
           ELSE IF TaskTakesLine(slot.work_line_number, TaskLineMask, t)
           THEN /\ tasks' = [tasks EXCEPT !.slot[t] =
                                [y |-> y + 1,
                                 work_line_number |-> slot.work_line_number + 1,
                                 written |-> slot.written \cup {y}]]
                /\ LPreviewObject' =
                        [LPreviewObject EXCEPT
                            !.m_pIncrementalLightInfoList[k].m_CalculatedContribution.rows =
                                @ \cup {y}]
           ELSE /\ tasks' = [tasks EXCEPT
                                !.slot[t].y = y + 1,
                                !.slot[t].work_line_number = @ + 1]
                /\ UNCHANGED LPreviewObject
    /\ UNCHANGED <<pc, should_quit, g_HammerToLPreviewMsgQueue,
                   g_LPreviewToHammerMsgQueue, host, history>>

\* one of the four tasks moves
RunTask == \E t \in Tasks : TaskStep(t)

\* the record of a light after the lines of CalculateForLight that follow
\* EndExecuteParallel
JoinedInfo(this, info, out) ==
    LET total == out[0] + out[1] + out[2] + out[3]
        new_incr_level == NewIncrLevel(info)
    IN  [info EXCEPT
            !.m_fTotalContribution = total,
            !.m_CalculatedContribution = IF total = 0 THEN SetSize(@, 0) ELSE @,
            !.m_nMostRecentNonZeroContributionTimeStamp =
                IF total = 0 THEN @ ELSE this.m_nContributionCounter,
            !.m_PartialResultsStage = new_incr_level,
            !.m_eIncrState =
                IF new_incr_level = N_INCREMENTAL_STEPS - 1
                THEN INCR_STATE_HAVE_FULL_RESULTS
                ELSE INCR_STATE_PARTIAL_RESULTS]

\* EndExecuteParallel returns when the four tasks have returned; the rest of
\* CalculateForLight and of DoWork follows
KernelJoin ==
    /\ pc = "kernel"
    /\ \A t \in Tasks : TaskReturned(t)
    /\ LET k == LPreviewObject.m_pLightList.lights[tasks.l].m_pIncrementalInfo
       IN  \E out \in [Tasks -> 0 .. MaxLight] :
            /\ \A t \in Tasks : tasks.slot[t].written = {} => out[t] = 0
            /\ LPreviewObject' =
                [LPreviewObject EXCEPT
                    !.m_pIncrementalLightInfoList[k] = JoinedInfo(LPreviewObject, @, out),
                    !.m_bResultChangedSinceLastSend =
                        (out[0] + out[1] + out[2] + out[3] # 0) \/ @]
            /\ history' = [history EXCEPT !.runs[k] = Min(@ + 1, N_INCREMENTAL_STEPS + 1)]
    /\ tasks' = NoTasks
    /\ pc' = "send"
    /\ UNCHANGED <<should_quit, g_HammerToLPreviewMsgQueue,
                   g_LPreviewToHammerMsgQueue, host>>

\* the kernel runs of the first levels, task by task; no message arrives
NextKernel ==
    \/ LeaveMessageLoop
    \/ KernelBegin \/ RunTask \/ KernelJoin
    \/ SkipSendResult

SpecKernel == InitKernel /\ [][NextKernel]_vars
\* ================================================================ properties
Records == LPreviewObject.m_pIncrementalLightInfoList

\* the lights of the current list
Lights ==
    IF LPreviewObject.m_pLightList.null THEN {}
    ELSE 1 .. Len(LPreviewObject.m_pLightList.lights)

\* all the rows of an image of the current size
AllRows == 0 .. (LPreviewObject.m_Albedos.m_nHeight - 1)

\* a pass of the current run of this record found light: the stamp is only
\* ever set to the counter, which every discard advances
LitThisRun(info) ==
    info.m_nMostRecentNonZeroContributionTimeStamp = LPreviewObject.m_nContributionCounter

\* C1: a light refined from level 0 to Full without a message in between
\* holds what one pass over all rows would leave: every row written when
\* some row is lit (and no matrix when none is).
ProgressiveRefinement ==
    \A i \in Lights :
        LET info == InfoOf(LPreviewObject, i)
        IN  info.m_eIncrState = INCR_STATE_HAVE_FULL_RESULTS =>
                IF LitThisRun(info)
                THEN /\ info.m_CalculatedContribution.m_nHeight =
                            LPreviewObject.m_Albedos.m_nHeight
                     /\ info.m_CalculatedContribution.rows = AllRows
                ELSE info.m_CalculatedContribution = EmptyMatrix

\* the set bit of line_mask[k] nearest to m, the lower one on a tie
NearestSetBit(k, m) ==
    CHOOSE b \in m_LineMask[k] :
        \A c \in m_LineMask[k] :
            \/ Abs(b - m) < Abs(c - m)
            \/ Abs(b - m) = Abs(c - m) /\ b <= c

\* C2: for the level k of every light SendResult resamples and every
\* row-in-tile m, m_ClosestLineOffset[k][m] is the set bit of m_LineMask[k]
\* that minimises |b - m|, the lower bit on a tie.
ClosestLineIsNearest ==
    \A i \in Lights, m \in Steps :
        LET k == InfoOf(LPreviewObject, i).m_PartialResultsStage
        IN  m_ClosestLineOffset[k][m] = NearestSetBit(k, m)

\* a matrix that holds data
NonEmpty(matrix) == matrix.m_nHeight > 0

\* C10: between the steps of the thread a record's contribution matrix is
\* non-empty exactly when the record is Partial or Full with a total
\* contribution above zero: SendResult never reads an empty matrix, and a
\* Partial or Full record whose total is zero holds none.
MatrixPresence ==
    \A k \in 1 .. Len(Records) :
        NonEmpty(Records[k].m_CalculatedContribution) <=>
            /\ Records[k].m_eIncrState \in
                    {INCR_STATE_PARTIAL_RESULTS, INCR_STATE_HAVE_FULL_RESULTS}
            /\ Records[k].m_fTotalContribution > 0

\* C10, its case: a record that found light earlier in this run stands Full
\* with a zero total and its matrix dropped, before an image of some height
MatrixDropped ==
    \E k \in 1 .. Len(Records) :
        /\ Records[k].m_eIncrState = INCR_STATE_HAVE_FULL_RESULTS
        /\ Records[k].m_fTotalContribution = 0
        /\ LitThisRun(Records[k])
        /\ Records[k].m_CalculatedContribution = EmptyMatrix
        /\ LPreviewObject.m_Albedos.m_nHeight > 0

\* this step is a kernel run: Run calls DoWork and DoWork finds a light
KernelRunStep == WorkReady /\ pc' = "send"

\* this step handles a LightList, Geometry or GBuffers message
DiscardStep ==
    /\ pc = "messages"
    /\ pc' = "messages"
    /\ Len(g_HammerToLPreviewMsgQueue') < Len(g_HammerToLPreviewMsgQueue)
    /\ Head(g_HammerToLPreviewMsgQueue).m_MsgType # LPREVIEW_MSG_EXIT

\* what a kernel run may do to a record: nothing, or one step of refinement
RefinedBy(old, new) ==
    \/ new = old
    \/ /\ old.m_eIncrState \in {INCR_STATE_NEW, INCR_STATE_NO_RESULTS}
       /\ new.m_eIncrState = INCR_STATE_PARTIAL_RESULTS
       /\ new.m_PartialResultsStage = 0
    \/ /\ old.m_eIncrState = INCR_STATE_PARTIAL_RESULTS
       /\ new.m_PartialResultsStage = old.m_PartialResultsStage + 1
       /\ new.m_eIncrState =
            IF new.m_PartialResultsStage = N_INCREMENTAL_STEPS - 1
            THEN INCR_STATE_HAVE_FULL_RESULTS ELSE INCR_STATE_PARTIAL_RESULTS

\* what discard-results may do to a record
DiscardedBy(old, new) ==
    new.m_eIncrState =
        IF old.m_eIncrState = INCR_STATE_NEW THEN INCR_STATE_NEW
        ELSE INCR_STATE_NO_RESULTS

LifecycleStep ==
    LET old == LPreviewObject.m_pIncrementalLightInfoList
        new == LPreviewObject'.m_pIncrementalLightInfoList
    IN  /\ Len(new) >= Len(old)
        /\ \A k \in 1 .. Len(old) :
            /\ KernelRunStep => RefinedBy(old[k], new[k])
            /\ DiscardStep => DiscardedBy(old[k], new[k])
            /\ ~KernelRunStep /\ ~DiscardStep =>
                    new[k].m_eIncrState = old[k].m_eIncrState
            /\ new[k].m_eIncrState = INCR_STATE_NEW =>
                    old[k].m_eIncrState = INCR_STATE_NEW
        /\ \A k \in (Len(old) + 1) .. Len(new) :
                DiscardStep /\ new[k].m_eIncrState = INCR_STATE_NEW

\* C9: the state of a record changes only New->Partial, NoResults->Partial,
\* Partial->Partial (a kernel run landing below level N-1), Partial->Full (a
\* kernel run landing on level N-1), Partial->NoResults and Full->NoResults
\* (discard-results), and a discard leaves New at New; no record returns to
\* New, a kernel run on a New or NoResults record lands on level 0, and a
\* kernel run never changes a Full record.
PerLightLifecycle == [][LifecycleStep]_vars

\* C9, its case: a record was refined to Full on level N-1 and then
\* discarded to NoResults
FullDiscarded ==
    \E k \in 1 .. Len(Records) :
        /\ Records[k].m_eIncrState = INCR_STATE_NO_RESULTS
        /\ Records[k].m_PartialResultsStage = N_INCREMENTAL_STEPS - 1

\* the generation carried by the DisplayResult queued last
Emitted == g_LPreviewToHammerMsgQueue[1]

\* C6: a DisplayResult emitted after the thread handled a GBuffers message
\* with generation g, and before it handles the next one, carries g; the
\* LightList and Geometry messages and the kernel runs in between do not
\* change it.
GenerationEcho ==
    pc = "sent" /\ history.handled # 0 => Emitted = history.handled

\* C6, its case: a DisplayResult is emitted after a GBuffers message and a
\* kernel run that followed it
EchoAfterKernelRun ==
    /\ pc = "sent"
    /\ history.handled # 0
    /\ \E k \in 1 .. Len(Records) :
            Records[k].m_eIncrState = INCR_STATE_PARTIAL_RESULTS

\* C8 as stated: discard-results twice leaves the state discard-results once
\* leaves, in every field.
DiscardIdempotent ==
    DiscardResults(DiscardResults(LPreviewObject)) = DiscardResults(LPreviewObject)

\* C8: discard-results twice leaves the state discard-results once leaves in
\* every per-light field and in the result-changed flag, and the contribution
\* counter one higher; handling a Geometry message advances the counter by 2.
DiscardIdempotentButCounter ==
    LET once == DiscardResults(LPreviewObject)
        twice == DiscardResults(once)
    IN  /\ [twice EXCEPT !.m_nContributionCounter = once.m_nContributionCounter] = once
        /\ twice.m_nContributionCounter = once.m_nContributionCounter + 1
        /\ \A nTris \in TriangleCounts :
            LET geom == HandleGeomData(LPreviewObject, nTris)
            IN  /\ geom.m_nContributionCounter = LPreviewObject.m_nContributionCounter + 2
                /\ geom.m_pIncrementalLightInfoList = once.m_pIncrementalLightInfoList

\* C8, its case: a light list, a triangle list, a kernel run and a second
\* triangle list: the two Geometry messages discarded twice each, the second
\* one the results of the run
GeometryDiscardedTwice ==
    /\ LPreviewObject.m_nContributionCounter = InitialContributionCounter + 5
    /\ \E k \in 1 .. Len(Records) : Records[k].m_eIncrState = INCR_STATE_NO_RESULTS

\* the two records, both with work to do
WorkPairs ==
    {p \in Lights \X Lights :
        /\ p[1] # p[2]
        /\ HasWorkToDo(InfoOf(LPreviewObject, p[1]))
        /\ HasWorkToDo(InfoOf(LPreviewObject, p[2]))}

Dark(info) == info.m_fTotalContribution = 0

\* the two records are equal in the attribute the priority rule for their
\* pair of states compares
RuleTie(a, b) ==
    LET states == {a.m_eIncrState, b.m_eIncrState}
        stamps == a.m_nMostRecentNonZeroContributionTimeStamp =
                    b.m_nMostRecentNonZeroContributionTimeStamp
        totals == a.m_fTotalContribution = b.m_fTotalContribution
    IN  IF IsHighPriority(a, LPreviewObject) # IsHighPriority(b, LPreviewObject)
        THEN FALSE
        ELSE CASE states = {INCR_STATE_NEW} ->
                    a.m_fDistanceToEye = b.m_fDistanceToEye
               [] states = {INCR_STATE_NEW, INCR_STATE_NO_RESULTS} -> FALSE
               [] states = {INCR_STATE_NEW, INCR_STATE_PARTIAL_RESULTS} -> FALSE
               [] states = {INCR_STATE_PARTIAL_RESULTS} ->
                    IF Dark(a) /\ Dark(b) THEN stamps
                    ELSE IF Dark(a) \/ Dark(b) THEN FALSE
                    ELSE IF Abs(a.m_PartialResultsStage - b.m_PartialResultsStage) <= 1
                         THEN totals
                    ELSE FALSE
               [] states = {INCR_STATE_PARTIAL_RESULTS, INCR_STATE_NO_RESULTS} ->
                    IF Dark(a) /\ Dark(b) THEN stamps ELSE FALSE
               [] states = {INCR_STATE_NO_RESULTS} ->
                    IF Dark(a) /\ Dark(b) THEN stamps ELSE totals
               [] OTHER -> TRUE

\* C3: of two records with work to do that differ in the attribute their
\* rule compares, exactly one is lower in priority than the other.
PriorityAntisymmetric ==
    \A p \in WorkPairs :
        LET a == InfoOf(LPreviewObject, p[1])
            b == InfoOf(LPreviewObject, p[2])
        IN  ~RuleTie(a, b) =>
                IsLowerPriorityThan(a, LPreviewObject, b) #
                    IsLowerPriorityThan(b, LPreviewObject, a)

\* C4: the light DoWork passes to CalculateForLight has work to do, and is
\* lower in priority than no other light of the list that has work to do.
DoWorkPicksHighest ==
    WorkReady =>
        LET best_l == BestLight(LPreviewObject)
        IN  /\ HasWorkToDo(InfoOf(LPreviewObject, best_l))
            /\ \A m \in Lights \ {best_l} :
                HasWorkToDo(InfoOf(LPreviewObject, m)) =>
                    ~IsLowerPriorityThan(InfoOf(LPreviewObject, best_l),
                                         LPreviewObject,
                                         InfoOf(LPreviewObject, m))

\* a GBuffers message with this generation waits in the inbound queue
Queued(generation) ==
    \E n \in 1 .. Len(g_HammerToLPreviewMsgQueue) :
        g_HammerToLPreviewMsgQueue[n] = Message(LPREVIEW_MSG_G_BUFFERS, generation)

SendAfterInvalidation == history.owed ~> ~history.owed

\* C11: in every reachable state a record in state New has an empty
\* contribution matrix, level 0 and total contribution 0, whatever LightList,
\* Geometry and GBuffers messages and kernel runs came before.
NewStateInvariant ==
    \A k \in 1 .. Len(Records) :
        Records[k].m_eIncrState = INCR_STATE_NEW =>
            /\ Records[k].m_CalculatedContribution = EmptyMatrix
            /\ Records[k].m_PartialResultsStage = 0
            /\ Records[k].m_fTotalContribution = 0

\* C11, its case: a record is still New after a kernel run found light for
\* another record and a message discarded that result
NewSurvivedDiscard ==
    \E a \in 1 .. Len(Records), b \in 1 .. Len(Records) :
        /\ Records[a].m_eIncrState = INCR_STATE_NEW
        /\ Records[b].m_eIncrState = INCR_STATE_NO_RESULTS
        /\ Records[b].m_fTotalContribution > 0

\* C12: every record has its level in [0, N); a Full record has level N-1;
\* a Partial record has a level below N-1, so the level a kernel run indexes
\* m_LineMask and m_ClosestLineOffset with is in [0, N).
LevelInvariant ==
    /\ \A k \in 1 .. Len(Records) :
        /\ Records[k].m_PartialResultsStage \in Steps
        /\ Records[k].m_eIncrState = INCR_STATE_HAVE_FULL_RESULTS =>
                Records[k].m_PartialResultsStage = N_INCREMENTAL_STEPS - 1
        /\ Records[k].m_eIncrState = INCR_STATE_PARTIAL_RESULTS =>
                Records[k].m_PartialResultsStage < N_INCREMENTAL_STEPS - 1
    /\ WorkReady => NextLevel \in Steps

\* C12, its case: the kernel run on level N-1, the N-th on its record, has
\* just made the record Full
FullReached ==
    /\ pc = "send"
    /\ \E k \in 1 .. Len(Records) :
        /\ Records[k].m_eIncrState = INCR_STATE_HAVE_FULL_RESULTS
        /\ Records[k].m_PartialResultsStage = N_INCREMENTAL_STEPS - 1
        /\ history.runs[k] = N_INCREMENTAL_STEPS

\* the table m_LineMask: level 0 holds row 0 alone, each further level adds
\* the one row that is its number bit-reversed, the last level holds all
\* rows, and the first rows come in the order 0, 16, 8, 24, 4, 20
MaskGrowsByOneRow ==
    /\ m_LineMask[0] = {0}
    /\ \A k \in 1 .. (N_INCREMENTAL_STEPS - 1) :
        /\ BitReverse(k) \notin m_LineMask[k - 1]
        /\ m_LineMask[k] = m_LineMask[k - 1] \cup {BitReverse(k)}
    /\ m_LineMask[N_INCREMENTAL_STEPS - 1] = Steps
    /\ [k \in 0 .. 5 |-> BitReverse(k)] =
            (0 :> 0 @@ 1 :> 16 @@ 2 :> 8 @@ 3 :> 24 @@ 4 :> 4 @@ 5 :> 20)

\* C13: line_mask[0] = {0}; line_mask[k] is line_mask[k-1] and the one row
\* bitrev(k), which line_mask[k-1] lacks; line_mask[N-1] is all N rows; the
\* rows come in the order 0, 16, 8, 24, 4, 20, ...; and the kernel run that
\* reaches level k computes the row bitrev(k) of every tile that has it, and
\* no other row.
LineSchedule ==
    /\ MaskGrowsByOneRow
    /\ WorkReady =>
        LET info == InfoOf(LPreviewObject, BestLight(LPreviewObject))
        IN  /\ CalcMask(info) = {BitReverse(NextLevel)}
            /\ RowsToCompute(CalcMask(info), LPreviewObject.m_Albedos.m_nHeight) =
                    {y \in AllRows : y % N_INCREMENTAL_STEPS = BitReverse(NextLevel)}

\* C13, its case: the passes on levels 0, 1 and 2 found light and wrote the
\* rows 0 and 32, then 16, then 8 of an image of 33 rows
ThirdPassWritten ==
    \E k \in 1 .. Len(Records) :
        /\ Records[k].m_eIncrState = INCR_STATE_PARTIAL_RESULTS
        /\ Records[k].m_PartialResultsStage = 2
        /\ Records[k].m_CalculatedContribution.rows = {0, 8, 16, 32}

\* the G-buffers whose three images differ in size
Mismatched(heights) == heights[1] # heights[2] \/ heights[2] # heights[3]

\* C14: handling a Geometry message whose vertex count is not divisible by 3,
\* or a GBuffers message whose three images differ in size, leaves the whole
\* state of the thread unchanged.
InconsistentInputRejected ==
    /\ \A nTris \in TriangleCounts :
        nTris % 3 # 0 => HandleGeomData(LPreviewObject, nTris) = LPreviewObject
    /\ \A heights \in GBufferHeights, eye \in Coords, posLo \in Coords, posHi \in Coords :
        Mismatched(heights) /\ posLo <= posHi =>
            HandleGBuffers(LPreviewObject, host.generation + 1, heights, eye, posLo, posHi)
                = LPreviewObject

\* C15 as stated: a DisplayResult emitted while useful work remains comes
\* more than 10 s after the DisplayResult before it.
SendRateLimit ==
    pc = "sent" /\ AnyUsefulWorkToDo(LPreviewObject) => history.gap > SendPeriod

\* this step emits a DisplayResult
EmissionStep == pc = "send" /\ pc' = "sent"

\* C15: a DisplayResult emitted while useful work remains comes more than
\* 10 s after the DisplayResult before it, unless a LightList, Geometry or
\* GBuffers message was handled in between; it then comes more than 1 s after
\* the last such message (m_fLastSendTime backdated by 9 s lies more than 10 s
\* back).
SendRateLimitBetweenDiscards ==
    [][EmissionStep /\ AnyUsefulWorkToDo(LPreviewObject) =>
            \/ history.elapsed > SendPeriod
            \/ history.owed /\ LPreviewObject.sinceLastSend > SendPeriod]_vars

\* C15, its case: a DisplayResult was emitted with useful work remaining
\* less than 10 s after the one before it
ForcedSendEmitted ==
    pc = "sent" /\ AnyUsefulWorkToDo(LPreviewObject) /\ history.gap <= SendPeriod

\* C16: when a kernel run has made the last light with work Full, Run calls
\* SendResult in the same iteration, whatever total the run produced.
PromptFinalSend ==
    pc = "send" /\ ~should_quit /\ ~AnyUsefulWorkToDo(LPreviewObject) =>
        SendDue(LPreviewObject)

\* light i is New and lies inside the scene bounds
InView(i) ==
    /\ InfoOf(LPreviewObject, i).m_eIncrState = INCR_STATE_NEW
    /\ LPreviewObject.m_MinViewCoords <= LPreviewObject.m_pLightList.lights[i].m_Position
    /\ LPreviewObject.m_pLightList.lights[i].m_Position <= LPreviewObject.m_MaxViewCoords

\* C17: when some light with work to do is New and inside the scene bounds,
\* the light DoWork passes to CalculateForLight is New and inside the scene
\* bounds, whatever the other lights are.
HighPriorityFirst ==
    WorkReady /\ (\E i \in Lights : InView(i)) => InView(BestLight(LPreviewObject))

\* C17, its case: DoWork picks a New light inside the bounds although the
\* other light stands at NoResults, with a total contribution above zero,
\* outside the bounds
NewInViewBeatsBright ==
    /\ WorkReady
    /\ InView(BestLight(LPreviewObject))
    /\ \E a \in Lights :
        /\ InfoOf(LPreviewObject, a).m_eIncrState = INCR_STATE_NO_RESULTS
        /\ InfoOf(LPreviewObject, a).m_fTotalContribution > 0
        /\ ~WithinAABox(LPreviewObject.m_pLightList.lights[a].m_Position,
                        LPreviewObject.m_MinViewCoords, LPreviewObject.m_MaxViewCoords)

\* every light of the list is Full
AllFull ==
    \A i \in Lights :
        InfoOf(LPreviewObject, i).m_eIncrState = INCR_STATE_HAVE_FULL_RESULTS

\* C18: with a RayTracingEnvironment, a light list and no further message,
\* a record is Full exactly when N kernel runs were made on it, no record
\* gets more than N, and the thread ends up with every light Full and no
\* useful work, waiting for a message.
Convergence ==
    <>[](/\ pc = "messages"
         /\ AllFull
         /\ ~AnyUsefulWorkToDo(LPreviewObject)
         /\ \A k \in 1 .. Len(Records) : history.runs[k] = N_INCREMENTAL_STEPS)

\* C18, its case: two lights, both Full after N kernel runs each, and the
\* thread waiting for a message
BothConverged ==
    /\ pc = "messages"
    /\ Len(Records) = 2
    /\ \A k \in 1 .. 2 :
        /\ Records[k].m_eIncrState = INCR_STATE_HAVE_FULL_RESULTS
        /\ history.runs[k] = N_INCREMENTAL_STEPS

\* C19: Run calls SendResult only when m_pLightList is non-null.
SendResultHasLightList ==
    pc = "send" /\ SendDue(LPreviewObject) => ~LPreviewObject.m_pLightList.null

\* C20: of a New light A and a Partial light B, neither high-priority, A is
\* lower in priority than B and B is not lower than A, and DoWork passes B to
\* CalculateForLight.
PartialBeatsNew ==
    \A p \in WorkPairs :
        LET a == InfoOf(LPreviewObject, p[1])
            b == InfoOf(LPreviewObject, p[2])
            newVersusPartial ==
                /\ a.m_eIncrState = INCR_STATE_NEW
                /\ b.m_eIncrState = INCR_STATE_PARTIAL_RESULTS
                /\ ~InView(p[1])
        IN  newVersusPartial =>
                /\ IsLowerPriorityThan(a, LPreviewObject, b)
                /\ ~IsLowerPriorityThan(b, LPreviewObject, a)
                /\ WorkReady => BestLight(LPreviewObject) = p[2]

\* C21: a kernel run whose total is not zero first adds one to
\* m_nContributionCounter and then stamps the record it ran on with the new
\* value of the counter.
TimestampStamping ==
    [][KernelRunStep /\ Records'[BestRecord(LPreviewObject)].m_fTotalContribution # 0 =>
        /\ LPreviewObject'.m_nContributionCounter =
                LPreviewObject.m_nContributionCounter + 1
        /\ Records'[BestRecord(LPreviewObject)].m_nMostRecentNonZeroContributionTimeStamp =
                LPreviewObject'.m_nContributionCounter]_vars

\* the rows of the matrix that calc_mask selects
SelectedRows ==
    {y \in 0 .. (TaskMatrix.m_nHeight - 1) : LineSelected(y, tasks.calc_mask)}

\* the rows the tasks in flight have written so far
RowsWritten == UNION {tasks.slot[t].written : t \in Tasks}

\* while the four tasks run, no two of them have written the same row, every
\* row written is one calc_mask selects, and once the four have returned
\* every selected row is written
RowsPartitioned ==
    pc = "kernel" =>
        /\ \A s \in Tasks, t \in Tasks :
                s # t => tasks.slot[s].written \cap tasks.slot[t].written = {}
        /\ RowsWritten \subseteq SelectedRows
        /\ RowsWritten \subseteq TaskMatrix.rows
        /\ (\A t \in Tasks : TaskReturned(t)) => RowsWritten = SelectedRows

\* the total, the level and the state of the record the tasks work for
Outcome(this, l) ==
    LET info == InfoOf(this, l)
    IN  <<info.m_fTotalContribution, info.m_PartialResultsStage, info.m_eIncrState>>

\* a step that leaves the fan-out or changes the record's total, level or
\* state finds the four tasks returned
UpdatedAfterJoin ==
    /\ pc = "kernel"
    /\ pc' # "kernel" \/ Outcome(LPreviewObject', tasks.l) # Outcome(LPreviewObject, tasks.l)
    => \A t \in Tasks : TaskReturned(t)

\* C22: in every interleaving of the four tasks of a kernel run, the sets of
\* rows they write are pairwise disjoint and add up to the rows whose bit is
\* set in calc_mask, and the record's total, level and state change only when
\* the four tasks have returned.
KernelPartitioning == []RowsPartitioned /\ [][UpdatedAfterJoin]_vars

\* C22, its case: the four tasks have returned, each has written a row and
\* one of them more than one
FourTasksWrote ==
    /\ pc = "kernel"
    /\ \A t \in Tasks : TaskReturned(t) /\ tasks.slot[t].written # {}
    /\ \E t \in Tasks : Cardinality(tasks.slot[t].written) > 1

\* this step takes a message from the inbound queue
ReceiveStep == Len(g_HammerToLPreviewMsgQueue') < Len(g_HammerToLPreviewMsgQueue)

\* this step is the test of the inner loop of Run that ends the loop
PollStep == pc = "messages" /\ pc' = "work"

\* this step makes a kernel run on some record
RunMade ==
    /\ Len(history.runs') = Len(history.runs)
    /\ \E k \in 1 .. Len(history.runs) : history.runs'[k] > history.runs[k]

\* C23: the inner loop of Run ends, short of Exit, only when MessageWaiting()
\* found the inbound queue empty, and a kernel run starts only from there;
\* messages are taken from the head of the queue, inside that loop only; once
\* Exit is handled no kernel run starts and no message is taken.
MessagesBeforeComputation ==
    [][/\ PollStep /\ ~should_quit => g_HammerToLPreviewMsgQueue = <<>>
       /\ RunMade => pc = "work" /\ ~should_quit
       /\ ReceiveStep =>
            /\ pc = "messages"
            /\ ~should_quit
            /\ g_HammerToLPreviewMsgQueue' = Tail(g_HammerToLPreviewMsgQueue)
       /\ should_quit => should_quit' /\ ~RunMade /\ ~ReceiveStep]_vars

\* C23, its case: a kernel run has been made after a LightList, a Geometry
\* and a GBuffers message were handled, and nothing waits in the queue
RunAfterMessages ==
    /\ pc = "send"
    /\ ~should_quit
    /\ history.handled # 0
    /\ history.runs # <<>>
    /\ \E k \in 1 .. Len(history.runs) : history.runs[k] > 0
    /\ g_HammerToLPreviewMsgQueue = <<>>

\* the members of the thread that DiscardResults has no statement for
KeptByDiscard(this) ==
    <<this.m_pLightList, this.m_Albedos, this.m_Normals, this.m_Positions,
      this.m_pRtEnv, this.m_bAccStructureBuilt, this.m_LastEyePosition,
      this.m_nBitmapGenerationCounter, this.m_MinViewCoords, this.m_MaxViewCoords>>

\* the members of a record that DiscardResults has no statement for
KeptOfRecord(info) ==
    <<info.m_fTotalContribution, info.m_PartialResultsStage,
      info.m_nMostRecentNonZeroContributionTimeStamp, info.m_nObjectID,
      info.m_pLight>>

\* C24: DiscardResults, called in any reachable state, keeps every record's
\* total contribution, level, time stamp and object id, and the G-buffers,
\* the RayTracingEnvironment, the light list and the generation counter; it
\* empties every matrix, turns Partial and Full into NoResults and leaves New
\* and NoResults, sets the distance to the eye of the records of the current
\* lights only, adds one to m_nContributionCounter, sets
\* m_bResultChangedSinceLastSend and backdates m_fLastSendTime.
DiscardFrame ==
    LET after == DiscardResults(LPreviewObject)
        new == after.m_pIncrementalLightInfoList
    IN  /\ KeptByDiscard(after) = KeptByDiscard(LPreviewObject)
        /\ Len(new) = Len(Records)
        /\ \A k \in 1 .. Len(Records) :
            /\ KeptOfRecord(new[k]) = KeptOfRecord(Records[k])
            /\ new[k].m_CalculatedContribution = EmptyMatrix
            /\ new[k].m_eIncrState =
                    IF Records[k].m_eIncrState = INCR_STATE_NEW
                    THEN INCR_STATE_NEW ELSE INCR_STATE_NO_RESULTS
            /\ LightOfInfo(LPreviewObject, k) = 0 =>
                    new[k].m_fDistanceToEye = Records[k].m_fDistanceToEye
        /\ after.m_nContributionCounter = LPreviewObject.m_nContributionCounter + 1
        /\ after.m_bResultChangedSinceLastSend
        /\ after.sinceLastSend = ForceSendBackdate

\* C24, its case: a message has discarded the results of a record that was
\* past level 0 with light found; the record is NoResults and still holds
\* its total, its level and its time stamp
DiscardKeptHint ==
    /\ pc = "messages"
    /\ LPreviewObject.sinceLastSend = ForceSendBackdate
    /\ \E k \in 1 .. Len(Records) :
        /\ Records[k].m_eIncrState = INCR_STATE_NO_RESULTS
        /\ Records[k].m_CalculatedContribution = EmptyMatrix
        /\ Records[k].m_fTotalContribution > 0
        /\ Records[k].m_PartialResultsStage > 0
        /\ Records[k].m_nMostRecentNonZeroContributionTimeStamp > 0

\* no two records carry the same object id, and every light of the current
\* list points to the record that carries its object id
RecordsIndexed ==
    /\ \A a \in 1 .. Len(Records), b \in 1 .. Len(Records) :
            a # b => Records[a].m_nObjectID # Records[b].m_nObjectID
    /\ \A i \in Lights :
        /\ LPreviewObject.m_pLightList.lights[i].m_pIncrementalInfo \in 1 .. Len(Records)
        /\ InfoOf(LPreviewObject, i).m_nObjectID =
                LPreviewObject.m_pLightList.lights[i].m_nObjectID

\* this step handles a LightList message
LightListStep ==
    /\ DiscardStep
    /\ Head(g_HammerToLPreviewMsgQueue).m_MsgType = LPREVIEW_MSG_LIGHT_DATA

\* no step removes a record or changes its object id; a LightList message
\* keeps the total, the level and the time stamp of the records there are,
\* and the records it adds are New, as constructed, for object ids no record
\* carried
RecordsPersist ==
    LET new == LPreviewObject'.m_pIncrementalLightInfoList
    IN  /\ Len(new) >= Len(Records)
        /\ \A k \in 1 .. Len(Records) : new[k].m_nObjectID = Records[k].m_nObjectID
        /\ LightListStep =>
            /\ \A k \in 1 .. Len(Records) :
                /\ new[k].m_fTotalContribution = Records[k].m_fTotalContribution
                /\ new[k].m_PartialResultsStage = Records[k].m_PartialResultsStage
                /\ new[k].m_nMostRecentNonZeroContributionTimeStamp =
                        Records[k].m_nMostRecentNonZeroContributionTimeStamp
            /\ \A k \in (Len(Records) + 1) .. Len(new) :
                /\ new[k].m_eIncrState = INCR_STATE_NEW
                /\ new[k].m_fTotalContribution = 0
                /\ new[k].m_PartialResultsStage = 0
                /\ new[k].m_CalculatedContribution = EmptyMatrix
                /\ \A j \in 1 .. Len(Records) : Records[j].m_nObjectID # new[k].m_nObjectID
        /\ ~LightListStep => Len(new) = Len(Records)

\* C25: the records are indexed by object id: at most one per id, none ever
\* removed, every light of the current list bound to the record of its id;
\* a LightList message keeps the total, level and time stamp of a record
\* whose id it names again and adds a New record for an id never seen.
RecordPersistence == []RecordsIndexed /\ [][RecordsPersist]_vars

\* C25, its case: a LightList message named an object id never seen; its
\* light is bound to a new record in state New, and the record of the light
\* of the list before is still there with the total it had
FreshRecordAdded ==
    /\ Len(Records) = 2
    /\ Lights = {1}
    /\ LPreviewObject.m_pLightList.lights[1].m_pIncrementalInfo = 2
    /\ Records[2].m_eIncrState = INCR_STATE_NEW
    /\ Records[1].m_fTotalContribution > 0
    /\ Records[1].m_PartialResultsStage > 0

\* the values of linemod in "for ( linemod = 0; linemod <= N_INCREMENTAL_STEPS; .. )":
\* the columns of m_ClosestLineOffset[lvl] that InitIncrementalInformation writes
LineModsWritten == 0 .. N_INCREMENTAL_STEPS

\* the values of chk in "for ( chk = 0; chk <= linemod; .. )": the shift
\* counts of "1 << chk"
BitsTested(linemod) == 0 .. linemod

\* C26: the elements of m_ClosestLineOffset that InitIncrementalInformation
\* writes and those that SendResult reads have both indices in [0, N), every
\* bit tested while the table is built is a bit below 32, and every entry
\* SendResult reads is a set bit of m_LineMask[level].
TableBounds ==
    /\ \A lvl \in Steps, linemod \in LineModsWritten :
        /\ linemod \in Steps
        /\ \A chk \in BitsTested(linemod) : chk < 32
    /\ \A i \in Composited(LPreviewObject), y \in AllRows :
        LET lvl == InfoOf(LPreviewObject, i).m_PartialResultsStage
        IN  /\ lvl \in Steps
            /\ (y % N_INCREMENTAL_STEPS) \in Steps
            /\ m_ClosestLineOffset[lvl][y % N_INCREMENTAL_STEPS] \in m_LineMask[lvl]

=============================================================================
